---------------------------- MODULE Spec2Model ----------------------------
(***************************************************************************)
(* Model of scripts/fix_file.py: the line patcher that restores the outer  *)
(* closing marker `  },` of shared/chamber-members.ts.                     *)
(*                                                                         *)
(* A line is a sequence of characters (code points), so that strip(),      *)
(* startswith(), the newline translation of text-mode files, split('\n')   *)
(* and '\n'.join() are computed, not assumed.                              *)
(* The cursor indices i and j are 0-based as in the script; lines[k] of    *)
(* the script is At(k) here.                                               *)
(***************************************************************************)
EXTENDS Integers, Sequences, FiniteSets

(***************************************************************************)
(* Bound of the model: the longest input file, in lines.                   *)
(***************************************************************************)
MaxLen == 4

(***************************************************************************)
(* Characters are code points.                                             *)
(***************************************************************************)
Space == 32

NL == 10

CR == 13

VT == 11

(***************************************************************************)
(* The lines the inputs are built from, one of each kind the tests of the  *)
(* scan tell apart, and the line terminators a file can use.               *)
(***************************************************************************)
\* "    },"
InnerClose == <<Space, Space, Space, Space, 125, 44>>
\* "      },"
DeepClose == <<Space, Space, Space, Space, Space, Space, 125, 44>>
\* "    }, \x0b": trailing space and vertical tab
TrailClose == <<Space, Space, Space, Space, 125, 44, Space, VT>>
\* "  },"
OuterClose == <<Space, Space, 125, 44>>
\* "  {"
BlockOpen == <<Space, Space, 123>>
\* ""
BlankLine == <<>>
\* "// note"
CommentLine == <<47, 47, Space, 110, 111, 116, 101>>
\* "x"
OtherLine == <<120>>

Alphabet ==
    {InnerClose, DeepClose, TrailClose, OuterClose, BlockOpen, BlankLine,
     CommentLine, OtherLine}

InputLines == UNION {[1..n -> Alphabet] : n \in 1..MaxLen}

Terminators == {<<NL>>, <<CR, NL>>, <<CR>>}

(***************************************************************************)
(* str.strip(), str.startswith(), the newline translation of text-mode     *)
(* files, str.split('\n') and '\n'.join().                                 *)
(***************************************************************************)
\* The characters str.strip() removes: \t \n \x0b \x0c \r, \x1c-\x1f, the
\* space, \x85, \xa0 and the Unicode spaces.
Whitespace ==
    (9..13) \cup (28..32) \cup {133, 160, 5760} \cup (8192..8202)
        \cup {8232, 8233, 8239, 8287, 12288}

RECURSIVE LStrip(_)
LStrip(s) ==
    IF s # <<>> /\ Head(s) \in Whitespace THEN LStrip(Tail(s)) ELSE s

RECURSIVE RStrip(_)
RStrip(s) ==
    IF s # <<>> /\ s[Len(s)] \in Whitespace
    THEN RStrip(SubSeq(s, 1, Len(s) - 1))
    ELSE s

Strip(s) == RStrip(LStrip(s))

StartsWith(s, prefix) ==
    Len(s) >= Len(prefix) /\ SubSeq(s, 1, Len(prefix)) = prefix

\* The k-th smallest element of a set of positions.
Nth(S, k) == CHOOSE p \in S : Cardinality({q \in S : q < p}) = k - 1

\* Reading in text mode: "\r\n" and a lone "\r" become "\n".  The "\n" of
\* a "\r\n" is marked and removed; every "\r" is replaced.
NotRemoved(c) == c >= 0

UniversalNewlines(s) ==
    SelectSeq([k \in 1..Len(s) |->
                  IF s[k] = NL /\ k > 1 /\ s[k - 1] = CR THEN 0 - 1
                  ELSE IF s[k] = CR THEN NL
                  ELSE s[k]],
              NotRemoved)

\* The positions of the separators, and the piece between the k-th and the
\* (k+1)-th (position 0 and Len(s)+1 standing for the two ends).
Newlines(s) == {k \in 1..Len(s) : s[k] = NL}

Cut(s, k) ==
    IF k = 0 THEN 0
    ELSE IF k > Cardinality(Newlines(s)) THEN Len(s) + 1
    ELSE Nth(Newlines(s), k)

Split(s) ==
    [k \in 1..(Cardinality(Newlines(s)) + 1) |->
        SubSeq(s, Cut(s, k - 1) + 1, Cut(s, k) - 1)]

RECURSIVE JoinWith(_, _)
JoinWith(sep, ls) ==
    IF ls = <<>> THEN <<>>
    ELSE IF Len(ls) = 1 THEN ls[1]
    ELSE ls[1] \o sep \o JoinWith(sep, Tail(ls))

Join(ls) == JoinWith(<<NL>>, ls)

(***************************************************************************)
(* State.  content is the file; written is the history of the contents the *)
(* script has written; origin[k] is the index in lines of the line that    *)
(* result[k] was copied from, and Inserted for a line the script made up.  *)
(***************************************************************************)
VARIABLES content, lines, result, i, j, buffer, found_array_start, pc,
          origin, written

vars ==
    <<content, lines, result, i, j, buffer, found_array_start, pc, origin,
      written>>

Inserted == -1

At(k) == lines[k + 1]

Init ==
    /\ content \in {JoinWith(eol, ls) : ls \in InputLines, eol \in Terminators}
    /\ lines = <<>>
    /\ result = <<>>
    /\ i = 0
    /\ j = 0
    /\ buffer = <<>>
    /\ found_array_start = FALSE
    /\ pc = "read"
    /\ origin = <<>>
    /\ written = <<>>

(***************************************************************************)
(* The tests of the scan.                                                  *)
(***************************************************************************)
IsInnerClose(line) ==
    Strip(line) = <<125, 44>>
    /\ StartsWith(line, <<Space, Space, Space, Space>>)

\* Faulty variant of IsBlankOrComment: comment lines are not skipped.
IsBlankOnly(line) == Strip(line) = <<>>

IsBlankOrComment(line) ==
    Strip(line) = <<>> \/ StartsWith(Strip(line), <<47, 47>>)

HasClose(buf) == \E k \in 1..Len(buf) : buf[k] = OuterClose

NextIsBrace == i + 1 < Len(lines) /\ At(i + 1) = BlockOpen

NextIsBlank == i + 1 < Len(lines) /\ Strip(At(i + 1)) = <<>>

\* Faulty variant of Look2FoundBrace: any line after the run counts.
Look2FoundAnyLine == j < Len(lines)

Look2FoundBrace == j < Len(lines) /\ At(j) = BlockOpen

\* Faulty variants of Rule1Resume: the cursor is left where it was, or is
\* set one line short.
Rule1ResumeStale == i

Rule1ResumeShort == j - 2

Rule1Resume == j - 1

(***************************************************************************)
(* Lines 3-8: read the file and split it.                                  *)
(***************************************************************************)
ReadFile ==
    /\ pc = "read"
    /\ \E text \in {UniversalNewlines(content)} : lines' = Split(text)
    /\ result' = <<>>
    /\ origin' = <<>>
    /\ i' = 0
    /\ pc' = "scan"
    /\ UNCHANGED <<content, j, buffer, found_array_start, written>>

(***************************************************************************)
(* Line 16: the current line is an inner close; it is copied and the       *)
(* lookahead of rule 1 starts.                                             *)
(***************************************************************************)
InnerCloseStart ==
    /\ pc = "scan"
    /\ i < Len(lines)
    /\ IsInnerClose(At(i))
    /\ result' = Append(result, At(i))
    /\ origin' = Append(origin, i)
    /\ j' = i + 1
    /\ buffer' = <<>>
    /\ found_array_start' = FALSE
    /\ pc' = "look1"
    /\ UNCHANGED <<content, lines, i, written>>

Look1Buffer ==
    /\ pc = "look1"
    /\ j < Len(lines)
    /\ IsBlankOrComment(At(j))
    /\ buffer' = Append(buffer, At(j))
    /\ j' = j + 1
    /\ UNCHANGED <<content, lines, result, i, found_array_start, pc, origin,
                   written>>

Look1Found ==
    /\ pc = "look1"
    /\ j < Len(lines)
    /\ ~IsBlankOrComment(At(j))
    /\ At(j) = BlockOpen
    /\ found_array_start' = TRUE
    /\ pc' = "resolve1"
    /\ UNCHANGED <<content, lines, result, i, j, buffer, origin, written>>

Look1Stop ==
    /\ pc = "look1"
    /\ \/ j >= Len(lines)
       \/ /\ j < Len(lines)
          /\ ~IsBlankOrComment(At(j))
          /\ At(j) # BlockOpen
    /\ pc' = "resolve1"
    /\ UNCHANGED <<content, lines, result, i, j, buffer, found_array_start,
                   origin, written>>

(***************************************************************************)
(* Lines 40-47 and 75: insert the marker, re-emit the buffer, resume at    *)
(* the opening brace.  The buffer holds lines i+1 .. j-1.                  *)
(***************************************************************************)
InsertAndResume ==
    /\ pc = "resolve1"
    /\ found_array_start
    /\ LET has_close == HasClose(buffer)
           marked == IF has_close THEN result ELSE Append(result, OuterClose)
           markedOrigin == IF has_close THEN origin
                           ELSE Append(origin, Inserted)
       IN  /\ result' = marked \o buffer
           /\ origin' = markedOrigin \o [k \in 1..Len(buffer) |-> i + k]
    /\ i' = Rule1Resume + 1
    /\ pc' = "scan"
    /\ UNCHANGED <<content, lines, j, buffer, found_array_start, written>>

NoInsert ==
    /\ pc = "resolve1"
    /\ ~found_array_start
    /\ i' = i + 1
    /\ pc' = "scan"
    /\ UNCHANGED <<content, lines, result, j, buffer, found_array_start,
                   origin, written>>

(***************************************************************************)
(* Lines 53-71: the current line is the outer close.                       *)
(***************************************************************************)
OuterKeepBeforeBrace ==
    /\ pc = "scan"
    /\ i < Len(lines)
    /\ ~IsInnerClose(At(i))
    /\ At(i) = OuterClose
    /\ NextIsBrace
    /\ result' = Append(result, At(i))
    /\ origin' = Append(origin, i)
    /\ i' = i + 1
    /\ UNCHANGED <<content, lines, j, buffer, found_array_start, pc, written>>

OuterCheckFurther ==
    /\ pc = "scan"
    /\ i < Len(lines)
    /\ ~IsInnerClose(At(i))
    /\ At(i) = OuterClose
    /\ ~NextIsBrace
    /\ NextIsBlank
    /\ j' = i + 1
    /\ pc' = "look2"
    /\ UNCHANGED <<content, lines, result, i, buffer, found_array_start,
                   origin, written>>

OuterKeepOther ==
    /\ pc = "scan"
    /\ i < Len(lines)
    /\ ~IsInnerClose(At(i))
    /\ At(i) = OuterClose
    /\ ~NextIsBrace
    /\ ~NextIsBlank
    /\ result' = Append(result, At(i))
    /\ origin' = Append(origin, i)
    /\ i' = i + 1
    /\ UNCHANGED <<content, lines, j, buffer, found_array_start, pc, written>>

Look2Skip ==
    /\ pc = "look2"
    /\ j < Len(lines)
    /\ IsBlankOrComment(At(j))
    /\ j' = j + 1
    /\ UNCHANGED <<content, lines, result, i, buffer, found_array_start, pc,
                   origin, written>>

Look2Drop ==
    /\ pc = "look2"
    /\ ~(j < Len(lines) /\ IsBlankOrComment(At(j)))
    /\ Look2FoundBrace
    /\ i' = i + 1
    /\ pc' = "scan"
    /\ UNCHANGED <<content, lines, result, j, buffer, found_array_start,
                   origin, written>>

Look2Keep ==
    /\ pc = "look2"
    /\ ~(j < Len(lines) /\ IsBlankOrComment(At(j)))
    /\ ~Look2FoundBrace
    /\ result' = Append(result, At(i))
    /\ origin' = Append(origin, i)
    /\ i' = i + 1
    /\ pc' = "scan"
    /\ UNCHANGED <<content, lines, j, buffer, found_array_start, written>>

(***************************************************************************)
(* Line 73: any other line is copied.                                      *)
(***************************************************************************)
CopyLine ==
    /\ pc = "scan"
    /\ i < Len(lines)
    /\ ~IsInnerClose(At(i))
    /\ At(i) # OuterClose
    /\ result' = Append(result, At(i))
    /\ origin' = Append(origin, i)
    /\ i' = i + 1
    /\ UNCHANGED <<content, lines, j, buffer, found_array_start, pc, written>>

(***************************************************************************)
(* Lines 77-80: the loop is over; join the result and write it back.  The  *)
(* text-mode write puts os.linesep for each "\n": on POSIX, "\n" itself.   *)
(***************************************************************************)
WriteFile ==
    /\ pc = "scan"
    /\ i >= Len(lines)
    /\ \E text \in {Join(result)} :
           /\ content' = text
           /\ written' = Append(written, text)
    /\ pc' = "done"
    /\ UNCHANGED <<lines, result, i, j, buffer, found_array_start, origin>>

(***************************************************************************)
(* The script is run again on the file it has written.                     *)
(***************************************************************************)
RunAgain ==
    /\ pc = "done"
    /\ Len(written) < 2
    /\ pc' = "read"
    /\ UNCHANGED <<content, lines, result, i, j, buffer, found_array_start,
                   origin, written>>

Next ==
    \/ ReadFile
    \/ InnerCloseStart
    \/ Look1Buffer
    \/ Look1Found
    \/ Look1Stop
    \/ InsertAndResume
    \/ NoInsert
    \/ OuterKeepBeforeBrace
    \/ OuterCheckFurther
    \/ OuterKeepOther
    \/ Look2Skip
    \/ Look2Drop
    \/ Look2Keep
    \/ CopyLine
    \/ WriteFile

Spec == Init /\ [][Next]_vars

FairSpec == Spec /\ WF_vars(Next)

NextTwice == Next \/ RunAgain

SpecTwice == Init /\ [][NextTwice]_vars

(***************************************************************************)
(* Vocabulary of the properties.  Positions of the input are 0-based, as   *)
(* the cursor is; positions of the result are 1-based.                     *)
(***************************************************************************)
Idx == 0..(Len(lines) - 1)

ResultIdx == 1..Len(result)

Done == pc = "done"

SkippedKinds == {BlankLine, CommentLine}

\* Lines p+1 .. q-1 are blank or comment-only and line q is the block open.
RunTo(p, q) ==
    /\ p < q
    /\ q < Len(lines)
    /\ \A m \in (p + 1)..(q - 1) : At(m) \in SkippedKinds
    /\ At(q) = BlockOpen

\* A non-empty run of blank/comment lines after p leads to the block open.
LeadsToBrace(p) == \E q \in Idx : q > p + 1 /\ RunTo(p, q)

Copies(p) == {k \in ResultIdx : origin[k] = p}

Dropped(p) == Copies(p) = {}

OuterBefore(seq, n) == Cardinality({k \in 1..n : seq[k] = OuterClose})

(***************************************************************************)
(* C1. Rule 1 insertion: when the input holds `    },`, then zero or more  *)
(* blank or comment-only lines, then `  {`, the output holds the copy of   *)
(* that `    },`, directly followed by an inserted `  },`, then the        *)
(* skipped lines in their order, each exactly once, then that `  {`.       *)
(***************************************************************************)
Rule1Insertion ==
    Done =>
        \A p \in Idx, q \in Idx :
            (At(p) = InnerClose /\ RunTo(p, q)) =>
                \E k \in ResultIdx :
                    /\ k + (q - p) + 1 <= Len(result)
                    /\ origin[k] = p
                    /\ result[k] = InnerClose
                    /\ origin[k + 1] = Inserted
                    /\ result[k + 1] = OuterClose
                    /\ \A m \in 1..(q - p) :
                           /\ origin[k + 1 + m] = p + m
                           /\ result[k + 1 + m] = At(p + m)
                    /\ \A m \in 0..(q - p) : Cardinality(Copies(p + m)) = 1

Rule1InsertionWitness ==
    /\ Done
    /\ lines = <<InnerClose, BlankLine, CommentLine, BlockOpen>>
    /\ result = <<InnerClose, OuterClose, BlankLine, CommentLine, BlockOpen>>

(***************************************************************************)
(* C2. Idempotence: a second run of the script on the file the first run   *)
(* wrote writes the same file again.                                       *)
(***************************************************************************)
Idempotent == Len(written) = 2 => written[2] = written[1]

(***************************************************************************)
(* C3. Rule 2 drop: every `  },` followed by a non-empty run of blank      *)
(* and/or comment-only lines, in any order, that leads to `  {` is absent  *)
(* from the output.                                                        *)
(***************************************************************************)
Rule2Drop ==
    Done =>
        \A p \in Idx : (At(p) = OuterClose /\ LeadsToBrace(p)) => Dropped(p)

(***************************************************************************)
(* C4. The drop is compensated in the same pass: when rule 2 drops a       *)
(* `  },` that follows an inner closing marker and precedes a `  {`, the   *)
(* output holds an inserted `  },` directly after the copy of the last     *)
(* inner closing marker before the dropped line and before the copy of     *)
(* that `  {`, and no fewer `  },` lines precede the `  {` than in the     *)
(* input.                                                                  *)
(***************************************************************************)
DropCompensated ==
    Done =>
        \A p \in Idx, q \in Idx, c \in Idx :
            ( /\ At(p) = OuterClose
              /\ Dropped(p)
              /\ q > p
              /\ RunTo(p, q)
              /\ c < p
              /\ At(c) = InnerClose
              /\ \A m \in (c + 1)..(p - 1) : At(m) # InnerClose ) =>
                \E kc \in ResultIdx, kq \in ResultIdx :
                    /\ origin[kc] = c
                    /\ origin[kq] = q
                    /\ kc + 1 < kq
                    /\ origin[kc + 1] = Inserted
                    /\ result[kc + 1] = OuterClose
                    /\ OuterBefore(result, kq) >= OuterBefore(lines, q + 1)

(***************************************************************************)
(* C5. Rule 2 retention: a `  },` is absent from the output only if a      *)
(* non-empty run of blank/comment lines after it ends at `  {`; in every   *)
(* other position it is copied exactly once, unchanged, between the copies *)
(* of the lines before it and the copies of the lines after it.            *)
(***************************************************************************)
Rule2Retention ==
    Done =>
        \A p \in Idx :
            At(p) = OuterClose =>
                /\ Dropped(p) => LeadsToBrace(p)
                /\ ~LeadsToBrace(p) =>
                       \E k \in ResultIdx :
                           /\ Copies(p) = {k}
                           /\ result[k] = OuterClose
                           /\ \A r \in ResultIdx :
                                  origin[r] # Inserted =>
                                      (r < k <=> origin[r] < p)

Rule2RetentionWitness ==
    /\ Done
    /\ \E p \in Idx :
           /\ At(p) = OuterClose
           /\ p + 2 < Len(lines)
           /\ At(p + 1) = BlankLine
           /\ At(p + 2) \in SkippedKinds
           /\ ~LeadsToBrace(p)
           /\ ~Dropped(p)

(***************************************************************************)
(* C6. No spurious insertion: every inserted `  },` stands directly after  *)
(* the copy of an inner closing marker `    },` whose following run of     *)
(* blank/comment lines is immediately followed by `  {`.                   *)
(***************************************************************************)
NoSpuriousInsertion ==
    Done =>
        \A k \in ResultIdx :
            origin[k] = Inserted =>
                /\ k > 1
                /\ origin[k - 1] # Inserted
                /\ result[k - 1] = InnerClose
                /\ \E q \in Idx : RunTo(origin[k - 1], q)

(***************************************************************************)
(* C7. Order preservation, at every step: every line of the result is      *)
(* either an inserted `  },` or the unmodified copy of an input line the   *)
(* scan has consumed, and the copies stand in strictly increasing input    *)
(* order (none reordered, none duplicated).                                *)
(***************************************************************************)
OrderPreserved ==
    /\ Len(origin) = Len(result)
    /\ \A k \in ResultIdx :
           IF origin[k] = Inserted
           THEN result[k] = OuterClose
           ELSE /\ origin[k] \in Idx
                /\ result[k] = At(origin[k])
                /\ origin[k] <= i
                /\ pc = "scan" => origin[k] < i
    /\ \A k1 \in ResultIdx, k2 \in ResultIdx :
           (k1 < k2 /\ origin[k1] # Inserted /\ origin[k2] # Inserted) =>
               origin[k1] < origin[k2]

OrderPreservedWitness ==
    /\ Done
    /\ \E k \in ResultIdx :
           /\ origin[k] = Inserted
           /\ k + 2 <= Len(result)
           /\ result[k + 1] \in SkippedKinds
           /\ origin[k + 1] # Inserted

(***************************************************************************)
(* C8. Pass-through: every input line other than `  },` is copied exactly  *)
(* once, unmodified; and an input that holds neither the pattern of rule 1 *)
(* (`    },`, blank/comment lines, `  {`) nor that of rule 2 (`  },`, a    *)
(* non-empty run of blank/comment lines, `  {`) is reproduced identically. *)
(***************************************************************************)
NoRulePattern ==
    /\ \A p \in Idx, q \in Idx : ~(At(p) = InnerClose /\ RunTo(p, q))
    /\ \A p \in Idx : ~(At(p) = OuterClose /\ LeadsToBrace(p))

PassThrough ==
    Done =>
        /\ \A p \in Idx :
               At(p) # OuterClose =>
                   \E k \in ResultIdx :
                       Copies(p) = {k} /\ result[k] = At(p)
        /\ NoRulePattern => result = lines

(***************************************************************************)
(* C9. The trigger of rule 1 is exact: the lookahead runs, and a `  },` is *)
(* inserted, only for a current line that is exactly `    },`.             *)
(***************************************************************************)
Rule1TriggerExact ==
    /\ pc \in {"look1", "resolve1"} => At(i) = InnerClose
    /\ \A k \in ResultIdx :
           origin[k] = Inserted => (k > 1 /\ result[k - 1] = InnerClose)

(***************************************************************************)
(* C10. Termination in one forward pass: the cursor i never moves back,    *)
(* every iteration of the main loop moves it forward (the resume of rule 1 *)
(* and the skip of rule 2 included), every step of a lookahead moves j     *)
(* forward and keeps it within the file, and every run reaches its end.    *)
(***************************************************************************)
CursorStep ==
    /\ i' >= i
    /\ (pc \in {"scan", "resolve1", "look2"} /\ pc' = "scan") => i' > i
    /\ (pc \in {"look1", "look2"} /\ pc' = pc) => j' > j
    /\ pc' \in {"look1", "look2"} => (i < j' /\ j' <= Len(lines))
    /\ pc' = "scan" => i' <= Len(lines)

OneForwardPass == [][CursorStep]_vars /\ <>(pc = "done")

OneForwardPassWitness ==
    /\ Done
    /\ found_array_start
    /\ buffer # <<>>
    /\ i = Len(lines)
    /\ \E p \in Idx : At(p) = OuterClose /\ ~Dropped(p)

=============================================================================
